---- MODULE Spec2Model ----
(***************************************************************************)
(* Model of minard_vis.py: one run of main(), from reading the three CSV   *)
(* files to writing the image.  Each block of main() is one action; an     *)
(* exception raised inside a block ends the run in pc = "failed".          *)
(*                                                                         *)
(* Floating point numbers are modelled as exact fractions <<n, d>> in      *)
(* lowest terms with d > 0, extended with NaN = <<0, 0>>, +inf = <<1, 0>>  *)
(* and -inf = <<-1, 0>>.  Rounding is not modelled.  The square root is    *)
(* computed to a resolution of 1/SqrtScale, rounded down.                  *)
(***************************************************************************)
EXTENDS Integers, Sequences, FiniteSets, TLC

\* ---------------------------------------------------------------- bounds
MaxRows == 3      \* rows of the table a specification varies
MaxSurv == 2      \* survivor counts range over 0..MaxSurv
MaxTemp == 2      \* temperatures range over -MaxTemp..0
SqrtScale == 100  \* resolution of the modelled square root

\* ------------------------------------------------------------ arithmetic
Abs(n) == IF n < 0 THEN -n ELSE n

Sign(n) == IF n < 0 THEN -1 ELSE IF n > 0 THEN 1 ELSE 0

RECURSIVE Gcd(_, _)
Gcd(a, b) == IF b = 0 THEN a ELSE Gcd(b, a % b)

\* the float n/d; d = 0 gives nan or an infinity by the sign of n
Float(n, d) ==
    IF d = 0 THEN <<Sign(n), 0>>
    ELSE LET g == Gcd(Abs(n), Abs(d))
             s == IF d < 0 THEN -1 ELSE 1
         IN  <<(s * n) \div g, (s * d) \div g>>

NaN == <<0, 0>>
Zero == <<0, 1>>

IsNaN(a) == a = NaN
IsFinite(a) == a[2] # 0

FNeg(a) == <<-a[1], a[2]>>

FAdd(a, b) ==
    IF IsNaN(a) \/ IsNaN(b) THEN NaN
    ELSE IF IsFinite(a) /\ IsFinite(b) THEN Float(a[1] * b[2] + b[1] * a[2], a[2] * b[2])
    ELSE IF IsFinite(a) THEN b
    ELSE IF IsFinite(b) THEN a
    ELSE IF a = b THEN a ELSE NaN

FSub(a, b) == FAdd(a, FNeg(b))

FMul(a, b) == IF IsNaN(a) \/ IsNaN(b) THEN NaN ELSE Float(a[1] * b[1], a[2] * b[2])

\* a < b and a <= b on floats; every comparison with nan is false
FLt(a, b) ==
    /\ ~IsNaN(a) /\ ~IsNaN(b) /\ a # b
    /\ IF IsFinite(a) /\ IsFinite(b) THEN a[1] * b[2] < b[1] * a[2]
       ELSE IF IsFinite(a) THEN b[1] > 0
       ELSE a[1] < 0

FLe(a, b) == ~IsNaN(a) /\ ~IsNaN(b) /\ (a = b \/ FLt(a, b))

\* numpy / pandas true division: x/0 is +-inf, 0/0 and nan/0 are nan, nothing raises
NpDiv(a, b) ==
    IF IsNaN(a) \/ IsNaN(b) THEN NaN
    ELSE IF ~IsFinite(b) THEN (IF IsFinite(a) THEN Zero ELSE NaN)
    ELSE IF ~IsFinite(a) THEN (IF b[1] < 0 THEN FNeg(a) ELSE a)
    ELSE Float(a[1] * b[2], a[2] * b[1])

\* Python float true division raises ZeroDivisionError on a zero divisor,
\* whatever the dividend; otherwise it is the IEEE quotient
PyDivRaises(a, b) == b = Zero
PyDiv(a, b) == NpDiv(a, b)

RECURSIVE IsqrtIn(_, _, _)
IsqrtIn(n, lo, hi) ==
    IF lo = hi THEN lo
    ELSE LET mid == (lo + hi + 1) \div 2
         IN  IF mid * mid <= n THEN IsqrtIn(n, mid, hi) ELSE IsqrtIn(n, lo, mid - 1)

\* the largest k with k*k <= n
Isqrt(n) == IsqrtIn(n, 0, n)

\* np.sqrt: nan for nan and for negative numbers
NpSqrt(a) ==
    IF IsNaN(a) \/ a[1] < 0 THEN NaN
    ELSE IF ~IsFinite(a) THEN a
    ELSE Float(Isqrt((a[1] * SqrtScale * SqrtScale) \div a[2]), SqrtScale)

\* ------------------------------------------------------------------ text
\* a str is a sequence of characters; Ord gives the code points that order them
Ord(c) == CASE c = "A" -> 65 [] c = "R" -> 82 [] c = "a" -> 97 [] c = "r" -> 114

UpperChar(c) == CASE c = "a" -> "A" [] c = "r" -> "R" [] OTHER -> c

Upper(s) == [i \in 1..Len(s) |-> UpperChar(s[i])]

StartsWith(s, c) == Len(s) > 0 /\ s[1] = c

\* -1, 0, 1 as s sorts before, with, after t
RECURSIVE StrCmp(_, _)
StrCmp(s, t) ==
    IF s = <<>> THEN (IF t = <<>> THEN 0 ELSE -1)
    ELSE IF t = <<>> THEN 1
    ELSE IF Ord(Head(s)) < Ord(Head(t)) THEN -1
    ELSE IF Ord(Head(s)) > Ord(Head(t)) THEN 1
    ELSE StrCmp(Tail(s), Tail(t))

\* the order sort_values puts numbers in: ascending, nan last
NumCmp(a, b) ==
    IF a = b THEN 0
    ELSE IF IsNaN(a) THEN 1
    ELSE IF IsNaN(b) THEN -1
    ELSE IF FLt(a, b) THEN -1 ELSE 1

\* ---------------------------------------------------------------- tables
\* A cell of a CSV file: text that parses as the number val, or text that does not.
Cell(n) == [parses |-> TRUE, val |-> n]
Unparseable == [parses |-> FALSE, val |-> 0]

\* A DataFrame: the set of its column names and the sequence of its rows.  A row
\* is a record with one field per column the model knows; the field of a column
\* that is not in cols is never read.  Field row is the line of the file the row
\* came from.
NoTable == [cols |-> {}, rows |-> <<>>]

\* load_csv: the frame of the file without its "Unnamed: 0" column
load_csv(file) == [cols |-> file.cols \ {"Unnamed: 0"}, rows |-> file.rows]

\* pd.to_numeric(errors="coerce") on one cell
ToNumericCell(c) == IF c.parses THEN Float(c.val, 1) ELSE NaN

\* to_numeric(df, cols): the listed columns that are present are converted
to_numeric(df, cols) ==
    [df EXCEPT !.rows =
        [i \in 1..Len(df.rows) |->
            [f \in DOMAIN df.rows[i] |->
                IF f \in cols /\ f \in df.cols
                THEN ToNumericCell(df.rows[i][f])
                ELSE df.rows[i][f]]]]

TroopsNumeric == {"X", "long", "lat", "survivors", "group"}
TempNumeric == {"X", "long", "temp", "days"}
CitiesNumeric == {"X", "long", "lat"}

needed_troops == {"long", "lat", "survivors"}
needed_temp == {"long", "temp"}
needed_cities == {"long", "lat", "city"}

Range(s) == {s[i] : i \in 1..Len(s)}

\* the comparison of two rows on the columns named in by, in turn
RECURSIVE CmpBy(_, _, _)
CmpBy(by, a, b) ==
    IF by = <<>> THEN 0
    ELSE LET c == IF Head(by) = "direction"
                  THEN StrCmp(a.direction, b.direction)
                  ELSE NumCmp(a[Head(by)], b[Head(by)])
         IN  IF c # 0 THEN c ELSE CmpBy(Tail(by), a, b)

\* the arrangements of the rows S in ascending order of the columns by
RECURSIVE SortedSeqs(_, _)
SortedSeqs(S, by) ==
    IF S = {} THEN {<<>>}
    ELSE LET least == {x \in S : \A y \in S : CmpBy(by, x, y) <= 0}
         IN  UNION {{<<m>> \o t : t \in SortedSeqs(S \ {m}, by)} : m \in least}

\* df.sort_values(by): the rows in ascending key order, nan last; rows with equal
\* keys may come out in any order (the default sort is not stable)
sort_values(rows, by) == SortedSeqs(Range(rows), by)

\* Series.min() / Series.max() then float(): nan values are skipped, nan if none is left
Values(df, col) == {df.rows[i][col] : i \in 1..Len(df.rows)} \ {NaN}

ColMin(df, col) ==
    LET v == Values(df, col)
    IN  IF v = {} THEN NaN ELSE CHOOSE m \in v : \A x \in v : FLe(m, x)

ColMax(df, col) ==
    LET v == Values(df, col)
    IN  IF v = {} THEN NaN ELSE CHOOSE m \in v : \A x \in v : FLe(x, m)

\* ----------------------------------------------------------------- state
VARIABLES
    files,          \* the three CSV files on disk: [exists, cols, rows] each
    out_writable,   \* whether the output image can be written
    troops, temp, cities,           \* the DataFrames of main()
    max_surv, min_lat, max_lat,     \* lines 74-76
    temp_min, temp_max, y_base, y_temp,   \* lines 125-131
    fig,            \* whether plt.subplots has created the figure
    ax,             \* what has been drawn on the axes
    saved,          \* how many times the image file has been written
    printed,        \* whether "Saved: ..." has been reported
    pc,             \* the block of main() to run next
    err             \* the exception that ended the run

env == <<files, out_writable>>
frames == <<troops, temp, cities>>
extents == <<max_surv, min_lat, max_lat>>
tempvars == <<temp_min, temp_max, y_base, y_temp>>
plot == <<fig, ax>>
out == <<saved, printed>>
vars == <<files, out_writable, troops, temp, cities, max_surv, min_lat, max_lat,
          temp_min, temp_max, y_base, y_temp, fig, ax, saved, printed, pc, err>>

NoErr == [kind |-> "none", line |-> 0]

EmptyAxes ==
    [handles |-> <<>>, segments |-> <<>>, scatter |-> <<>>, city_texts |-> <<>>,
     temp_line |-> <<>>, temp_texts |-> <<>>, labels |-> FALSE, legend |-> <<>>,
     xlim |-> <<NaN, NaN>>, ylim |-> <<NaN, NaN>>, grid |-> FALSE]

\* the state main() starts in, given the files and the output directory
Start(f, w) ==
    /\ files = f
    /\ out_writable = w
    /\ troops = NoTable /\ temp = NoTable /\ cities = NoTable
    /\ max_surv = NaN /\ min_lat = NaN /\ max_lat = NaN
    /\ temp_min = NaN /\ temp_max = NaN /\ y_base = NaN /\ y_temp = <<>>
    /\ fig = FALSE
    /\ ax = EmptyAxes
    /\ saved = 0
    /\ printed = FALSE
    /\ pc = "load_troops"
    /\ err = NoErr

Goto(next) == pc' = next /\ err' = err

\* an uncaught exception: main() has no handler, the run ends
Raise(kind, line) == pc' = "failed" /\ err' = [kind |-> kind, line |-> line]

\* --------------------------------------------------------- lines 42-44
LoadTroops ==
    /\ pc = "load_troops"
    /\ IF files.troops.exists
       THEN troops' = load_csv(files.troops) /\ Goto("load_temp")
       ELSE troops' = troops /\ Raise("FileNotFoundError", 42)
    /\ UNCHANGED <<env, temp, cities, extents, tempvars, plot, out>>

LoadTemp ==
    /\ pc = "load_temp"
    /\ IF files.temp.exists
       THEN temp' = load_csv(files.temp) /\ Goto("load_cities")
       ELSE temp' = temp /\ Raise("FileNotFoundError", 43)
    /\ UNCHANGED <<env, troops, cities, extents, tempvars, plot, out>>

LoadCities ==
    /\ pc = "load_cities"
    /\ IF files.cities.exists
       THEN cities' = load_csv(files.cities) /\ Goto("to_numeric")
       ELSE cities' = cities /\ Raise("FileNotFoundError", 44)
    /\ UNCHANGED <<env, troops, temp, extents, tempvars, plot, out>>

\* --------------------------------------------------------- lines 47-49
Normalize ==
    /\ pc = "to_numeric"
    /\ troops' = to_numeric(troops, TroopsNumeric)
    /\ temp' = to_numeric(temp, TempNumeric)
    /\ cities' = to_numeric(cities, CitiesNumeric)
    /\ Goto("sort")
    /\ UNCHANGED <<env, extents, tempvars, plot, out>>

\* --------------------------------------------------------- lines 52-60
SortTroops(df) ==
    IF {"group", "direction", "X"} \subseteq df.cols
    THEN sort_values(df.rows, <<"group", "direction", "X">>)
    ELSE IF "X" \in df.cols THEN sort_values(df.rows, <<"X">>)
    ELSE {df.rows}

SortIfX(df) == IF "X" \in df.cols THEN sort_values(df.rows, <<"X">>) ELSE {df.rows}

Sort ==
    /\ pc = "sort"
    /\ \E a \in SortTroops(troops), b \in SortIfX(temp), c \in SortIfX(cities) :
        /\ troops' = [troops EXCEPT !.rows = a]
        /\ temp' = [temp EXCEPT !.rows = b]
        /\ cities' = [cities EXCEPT !.rows = c]
    /\ Goto("check_troops")
    /\ UNCHANGED <<env, extents, tempvars, plot, out>>

\* --------------------------------------------------------- lines 67-72
\* a check that passes when any of the needed columns is there
HasSomeColumn(df, needed) == needed \cap df.cols # {}

HasColumns(df, needed) == needed \subseteq df.cols

CheckTroops ==
    /\ pc = "check_troops"
    /\ IF HasColumns(troops, needed_troops) THEN Goto("check_temp") ELSE Raise("ValueError", 68)
    /\ UNCHANGED <<env, frames, extents, tempvars, plot, out>>

CheckTemp ==
    /\ pc = "check_temp"
    /\ IF HasColumns(temp, needed_temp) THEN Goto("check_cities") ELSE Raise("ValueError", 70)
    /\ UNCHANGED <<env, frames, extents, tempvars, plot, out>>

CheckCities ==
    /\ pc = "check_cities"
    /\ IF HasColumns(cities, needed_cities) THEN Goto("extents") ELSE Raise("ValueError", 72)
    /\ UNCHANGED <<env, frames, extents, tempvars, plot, out>>

\* --------------------------------------------------------- lines 74-76
Extents ==
    /\ pc = "extents"
    /\ max_surv' = ColMax(troops, "survivors")
    /\ min_lat' = ColMin(troops, "lat")
    /\ max_lat' = ColMax(troops, "lat")
    /\ Goto("subplots")
    /\ UNCHANGED <<env, frames, tempvars, plot, out>>

\* --------------------------------------------------------- lines 78-84
Subplots ==
    /\ pc = "subplots"
    /\ fig' = TRUE
    /\ ax' = [ax EXCEPT !.handles = <<"Advance (solid)", "Retreat (dashed)">>]
    /\ Goto("route")
    /\ UNCHANGED <<env, frames, extents, tempvars, out>>

\* --------------------------------------------------------- lines 88-116
Grouped(df) == {"group", "direction"} \subseteq df.cols

GroupKey(r) == [group |-> r.group, direction |-> r.direction]

\* groupby(["group", "direction"]): the keys in ascending order; a row whose key
\* holds a nan belongs to no group
GroupKeys(df) ==
    LET keys == {GroupKey(df.rows[i]) : i \in {j \in 1..Len(df.rows) : ~IsNaN(df.rows[j].group)}}
    IN  CHOOSE s \in SortedSeqs(keys, <<"group", "direction">>) : TRUE

\* the rows of one group, in the frame's order
GroupFrame(df, key) == SelectSeq(df.rows, LAMBDA r : GroupKey(r) = key)

\* line 91
GroupSorted(df, key) ==
    IF "X" \in df.cols THEN sort_values(GroupFrame(df, key), <<"X">>)
    ELSE {GroupFrame(df, key)}

RECURSIVE GroupOrders(_, _)
GroupOrders(df, keys) ==
    IF keys = <<>> THEN {<<>>}
    ELSE {<<g>> \o rest : g \in GroupSorted(df, Head(keys)),
                          rest \in GroupOrders(df, Tail(keys))}

\* The row sequences the loops run over, one per group (lines 89-91), or the one
\* sequence troops_sorted (line 108).
RouteOrders(df) ==
    IF Grouped(df) THEN GroupOrders(df, GroupKeys(df)) ELSE {<<s>> : s \in SortIfX(df)}

Consecutive(s) == [i \in 1..Len(s) - 1 |-> <<s[i], s[i + 1]>>]

RECURSIVE Flatten(_)
Flatten(gs) == IF gs = <<>> THEN <<>> ELSE Head(gs) \o Flatten(Tail(gs))

\* pairs taken across the groups' boundaries
RoutePairsAcross(gs) == Consecutive(Flatten(gs))

\* the pairs (p1, p2) = (iloc[i], iloc[i + 1]) of the loops, in order
RECURSIVE RoutePairs(_)
RoutePairs(gs) ==
    IF gs = <<>> THEN <<>> ELSE Consecutive(Head(gs)) \o RoutePairs(Tail(gs))

\* line 95 / 112
PairSurvivors(p1, p2) == NpDiv(FAdd(p1.survivors, p2.survivors), Float(2, 1))

\* line 98 / 113
Linewidth(surv, maxs) ==
    FAdd(Float(5, 10), FMul(Float(115, 10), NpSqrt(PyDiv(surv, maxs))))

\* a test of the value as written, not upper-cased
LineStyleAsWritten(direction) == IF StartsWith(direction, "A") THEN "-" ELSE "--"

\* line 101
LineStyle(direction) == IF StartsWith(Upper(direction), "A") THEN "-" ELSE "--"

\* what ax.plot receives for one pair (lines 105-106, 115-116)
Segment(df, p1, p2, maxs) ==
    [p1 |-> p1.row, p2 |-> p2.row,
     x |-> <<p1.long, p2.long>>, y |-> <<p1.lat, p2.lat>>,
     linewidth |-> Linewidth(PairSurvivors(p1, p2), maxs),
     linestyle |-> IF Grouped(df) THEN LineStyle(p1.direction) ELSE "-"]

\* the index of the first pair whose linewidth computation raises, or 0
FirstRaisingPair(pairs, maxs) ==
    LET bad == {i \in 1..Len(pairs) :
                    PyDivRaises(PairSurvivors(pairs[i][1], pairs[i][2]), maxs)}
    IN  IF bad = {} THEN 0 ELSE CHOOSE i \in bad : \A j \in bad : i <= j

Route ==
    /\ pc = "route"
    /\ \E order \in RouteOrders(troops) :
        LET pairs == RoutePairs(order)
            k == FirstRaisingPair(pairs, max_surv)
            drawn == IF k = 0 THEN pairs ELSE SubSeq(pairs, 1, k - 1)
        IN  /\ ax' = [ax EXCEPT !.segments =
                        [i \in 1..Len(drawn) |->
                            Segment(troops, drawn[i][1], drawn[i][2], max_surv)]]
            /\ IF k = 0 THEN Goto("cities")
               ELSE Raise("ZeroDivisionError", IF Grouped(troops) THEN 98 ELSE 113)
    /\ UNCHANGED <<env, frames, extents, tempvars, fig, out>>

\* --------------------------------------------------------- lines 119-122
Cities ==
    /\ pc = "cities"
    /\ ax' = [ax EXCEPT
                !.scatter = [i \in 1..Len(cities.rows) |->
                                <<cities.rows[i].long, cities.rows[i].lat>>],
                !.city_texts = [i \in 1..Len(cities.rows) |->
                                [x |-> FAdd(cities.rows[i].long, Float(8, 100)),
                                 y |-> FAdd(cities.rows[i].lat, Float(5, 100)),
                                 s |-> cities.rows[i].city]]]
    /\ Goto("temp_curve")
    /\ UNCHANGED <<env, frames, extents, tempvars, fig, out>>

\* --------------------------------------------------------- lines 125-135
y_span == Float(14, 10)

\* a band laid above the latitude instead of below
YBaseAbove(minlat) == FAdd(minlat, Float(23, 10))

\* line 128
YBase(minlat) == FSub(minlat, Float(23, 10))

\* the mapping without the subtraction of temp_min
YTempFromZero(t, tmin, tmax, ybase) ==
    FAdd(ybase, FMul(NpDiv(t, FSub(tmax, tmin)), y_span))

\* line 131, one element of the Series expression
YTemp(t, tmin, tmax, ybase) ==
    FAdd(ybase, FMul(NpDiv(FSub(t, tmin), FSub(tmax, tmin)), y_span))

TempCurve ==
    /\ pc = "temp_curve"
    /\ temp_min' = ColMin(temp, "temp")
    /\ temp_max' = ColMax(temp, "temp")
    /\ y_base' = YBase(min_lat)
    /\ y_temp' = [i \in 1..Len(temp.rows) |->
                    YTemp(temp.rows[i].temp, temp_min', temp_max', y_base')]
    /\ ax' = [ax EXCEPT !.temp_line =
                [i \in 1..Len(temp.rows) |-> <<temp.rows[i].long, y_temp'[i]>>]]
    /\ Goto("temp_labels")
    /\ UNCHANGED <<env, frames, extents, fig, out>>

\* --------------------------------------------------------- lines 138-142
\* line 139, with Python floats
YtRaises(t, tmin, tmax) == PyDivRaises(FSub(t, tmin), FSub(tmax, tmin))

\* a label placed by the full span, not the band's
YtUnscaled(t, tmin, tmax, ybase) ==
    FAdd(ybase, PyDiv(FSub(t, tmin), FSub(tmax, tmin)))

Yt(t, tmin, tmax, ybase) ==
    FAdd(ybase, FMul(PyDiv(FSub(t, tmin), FSub(tmax, tmin)), y_span))

\* int(x) of line 141: ValueError for nan, OverflowError for an infinity
IntRaises(a) == ~IsFinite(a)
IntOf(a) == Sign(a[1]) * (Abs(a[1]) \div a[2])

LabelRaises(r, tmin, tmax) == YtRaises(r.temp, tmin, tmax) \/ IntRaises(r.temp)

FirstRaisingLabel(rows, tmin, tmax) ==
    LET bad == {i \in 1..Len(rows) : LabelRaises(rows[i], tmin, tmax)}
    IN  IF bad = {} THEN 0 ELSE CHOOSE i \in bad : \A j \in bad : i <= j

\* what ax.text receives for one row; yt is the local of line 139
TempText(r, tmin, tmax, ybase) ==
    [row |-> r.row, x |-> r.long,
     yt |-> Yt(r.temp, tmin, tmax, ybase),
     y |-> FSub(Yt(r.temp, tmin, tmax, ybase), Float(1, 10)),
     degrees |-> IntOf(r.temp)]

TempLabels ==
    /\ pc = "temp_labels"
    /\ LET k == FirstRaisingLabel(temp.rows, temp_min, temp_max)
           n == IF k = 0 THEN Len(temp.rows) ELSE k - 1
       IN  /\ ax' = [ax EXCEPT !.temp_texts =
                        [i \in 1..n |-> TempText(temp.rows[i], temp_min, temp_max, y_base)]]
           /\ IF k = 0 THEN Goto("format")
              ELSE IF YtRaises(temp.rows[k].temp, temp_min, temp_max)
                   THEN Raise("ZeroDivisionError", 139)
                   ELSE Raise("ValueError", 141)
    /\ UNCHANGED <<env, frames, extents, tempvars, fig, out>>

\* --------------------------------------------------------- lines 145-154
XLim(df) == <<FSub(ColMin(df, "long"), Float(1, 2)), FAdd(ColMax(df, "long"), Float(1, 2))>>

YLim(ybase, maxlat) == <<FSub(ybase, Float(1, 2)), FAdd(maxlat, Float(8, 10))>>

Format ==
    /\ pc = "format"
    /\ ax' = [ax EXCEPT
                !.labels = TRUE,
                !.legend = ax.handles \o <<"Cities", "Temperature (dotted)">>,
                !.xlim = XLim(troops),
                !.ylim = YLim(y_base, max_lat),
                !.grid = TRUE]
    /\ Goto("savefig")
    /\ UNCHANGED <<env, frames, extents, tempvars, fig, out>>

\* --------------------------------------------------------- lines 156-158
\* a write whose failure is swallowed: the run goes on to report
SaveFigSwallowed ==
    /\ pc = "savefig"
    /\ saved' = IF out_writable THEN saved + 1 ELSE saved
    /\ Goto("print")
    /\ UNCHANGED <<env, frames, extents, tempvars, plot, printed>>

SaveFig ==
    /\ pc = "savefig"
    /\ IF out_writable
       THEN saved' = saved + 1 /\ Goto("print")
       ELSE saved' = saved /\ Raise("OSError", 158)
    /\ UNCHANGED <<env, frames, extents, tempvars, plot, printed>>

\* --------------------------------------------------------- line 159
Report ==
    /\ pc = "print"
    /\ printed' = TRUE
    /\ Goto("done")
    /\ UNCHANGED <<env, frames, extents, tempvars, plot, saved>>

Next ==
    \/ LoadTroops \/ LoadTemp \/ LoadCities
    \/ Normalize
    \/ Sort
    \/ CheckTroops \/ CheckTemp \/ CheckCities
    \/ Extents
    \/ Subplots
    \/ Route
    \/ Cities
    \/ TempCurve
    \/ TempLabels
    \/ Format
    \/ SaveFig
    \/ Report

\* ---------------------------------------------------------------- inputs
TroopRow(i, x, lo, la, s, g, d) ==
    [row |-> i, X |-> x, long |-> lo, lat |-> la, survivors |-> s, group |-> g,
     direction |-> d]

TempRow(i, x, lo, t) == [row |-> i, X |-> x, long |-> lo, temp |-> t]

CityRow(i, lo, la, c) == [row |-> i, X |-> Cell(i), long |-> lo, lat |-> la, city |-> c]

File(cols, rows) == [exists |-> TRUE, cols |-> cols, rows |-> rows]

Missing == [exists |-> FALSE, cols |-> {}, rows |-> <<>>]

TroopCols == {"X", "long", "lat", "survivors", "group", "direction"}
TempCols == {"X", "long", "temp"}
CityCols == {"long", "lat", "city"}

\* a well-formed input of each kind
BaseTroops ==
    File(TroopCols,
         <<TroopRow(1, Cell(1), Cell(24), Cell(55), Cell(4), Cell(1), <<"A">>),
           TroopRow(2, Cell(2), Cell(37), Cell(56), Cell(1), Cell(1), <<"A">>),
           TroopRow(3, Cell(3), Cell(37), Cell(56), Cell(1), Cell(1), <<"R">>),
           TroopRow(4, Cell(4), Cell(26), Cell(54), Cell(0), Cell(1), <<"R">>)>>)

BaseTemp ==
    File(TempCols,
         <<TempRow(1, Cell(1), Cell(37), Cell(0)),
           TempRow(2, Cell(2), Cell(32), Cell(-9)),
           TempRow(3, Cell(3), Cell(26), Cell(-30))>>)

BaseCities ==
    File(CityCols,
         <<CityRow(1, Cell(24), Cell(55), "Kowno"),
           CityRow(2, Cell(37), Cell(56), "Moscou")>>)

Inputs(t, p, c) == [troops |-> t, temp |-> p, cities |-> c]

\* a cell as written, or the same cell holding text that is no number
OrUnparseable(c) == {c, Unparseable}

\* --- inputs that differ in the columns the files have
ColumnInputs(a, b, c) ==
    Inputs([BaseTroops EXCEPT !.cols = a], [BaseTemp EXCEPT !.cols = b],
           [BaseCities EXCEPT !.cols = c])

\* --- inputs with cells that do not parse as numbers
CoerceTroops(c) ==
    [BaseTroops EXCEPT
        !.rows[1].long = c[1], !.rows[2].lat = c[2],
        !.rows[1].survivors = c[3], !.rows[2].survivors = c[4],
        !.rows[3].X = c[5], !.rows[4].group = c[6]]

CoerceTemp(c) ==
    [BaseTemp EXCEPT
        !.rows[1].temp = c[1], !.rows[2].temp = c[2], !.rows[3].temp = c[3],
        !.rows[1].long = c[4]]

CoerceCities(c) == [BaseCities EXCEPT !.rows[1].long = c[1], !.rows[2].lat = c[2]]

Init ==
    \/ \E a \in SUBSET (TroopCols \cup {"Unnamed: 0"}), b \in SUBSET TempCols,
          c \in SUBSET CityCols :
            Start(ColumnInputs(a, b, c), TRUE)
    \/ \E t \in {BaseTroops, Missing}, p \in {BaseTemp, Missing}, c \in {BaseCities, Missing},
          w \in BOOLEAN :
            Start(Inputs(t, p, c), w)
    \/ \E t \in OrUnparseable(Cell(24)) \X OrUnparseable(Cell(56)) \X OrUnparseable(Cell(4))
                \X OrUnparseable(Cell(1)) \X OrUnparseable(Cell(3)) \X OrUnparseable(Cell(1)),
          p \in OrUnparseable(Cell(0)) \X OrUnparseable(Cell(-9)) \X OrUnparseable(Cell(-30))
                \X OrUnparseable(Cell(37)),
          c \in OrUnparseable(Cell(24)) \X OrUnparseable(Cell(56)) :
            Start(Inputs(CoerceTroops(t), CoerceTemp(p), CoerceCities(c)), TRUE)

Spec == Init /\ [][Next]_vars

\* --- troops tables that differ in their survivor counts
Survivors == {Cell(n) : n \in 0..MaxSurv} \cup {Unparseable}

WidthTroops(cols, n, s) ==
    File(cols,
         [i \in 1..n |->
             TroopRow(i, Cell(i), Cell(24 + i), Cell(54 + (i % 2)), s[i], Cell(1), <<"A">>)])

InitWidth ==
    \E cols \in {TroopCols, needed_troops}, n \in 1..MaxRows :
        \E s \in [1..n -> Survivors] :
            Start(Inputs(WidthTroops(cols, n, s), BaseTemp, BaseCities), TRUE)

SpecWidth == InitWidth /\ [][Next]_vars

\* --- troops tables that differ in grouping, direction and sequence key.  The
\* --- first two rows take X in {1, 2}, the later ones in {0, 3}, so that keys tie
\* --- and rows sort out of file order.  A table may be irregular in one column:
\* --- the X or the group of its first row is unparseable, or the directions of
\* --- its first two rows are written in lower case.
RouteChoices(cols) ==
    (IF "X" \in cols THEN {1, 2} ELSE {1})
    \X (IF "group" \in cols THEN {Cell(1), Cell(2)} ELSE {Cell(1)})
    \X (IF "direction" \in cols THEN {<<"A">>, <<"R">>} ELSE {<<"A">>})

RouteX(i, b) == IF i <= 2 THEN Cell(b) ELSE Cell(3 * (b - 1))

LowerChar(c) == CASE c = "A" -> "a" [] c = "R" -> "r" [] OTHER -> c

Irregular(r, f) ==
    CASE f = "X" /\ r.row = 1 -> [r EXCEPT !.X = Unparseable]
      [] f = "group" /\ r.row = 1 -> [r EXCEPT !.group = Unparseable]
      [] f = "direction" /\ r.row <= 2 ->
            [r EXCEPT !.direction = [i \in 1..Len(r.direction) |-> LowerChar(r.direction[i])]]
      [] OTHER -> r

RouteTroops(opt, n, c, f) ==
    File(needed_troops \cup opt,
         [i \in 1..n |->
             Irregular(TroopRow(i, RouteX(i, c[i][1]), Cell(24 + i), Cell(54 + (i % 2)),
                                Cell(1 + (i % 2)), c[i][2], c[i][3]), f)])

InitRoute ==
    \E opt \in SUBSET {"X", "group", "direction"}, n \in 1..MaxRows :
        \E c \in [1..n -> RouteChoices(opt)], f \in opt \cup {"none"} :
            Start(Inputs(RouteTroops(opt, n, c, f), BaseTemp, BaseCities), TRUE)

SpecRoute == InitRoute /\ [][Next]_vars

\* --- temperature tables that differ in their values, over troops tables that
\* --- differ in their coordinates
Temps == {Cell(t) : t \in -MaxTemp..1}

TempTable(n, t) ==
    File(TempCols, [i \in 1..n |-> TempRow(i, Cell(i), Cell(38 - i), t[i])])

CoordTroops(lo, la) ==
    File(TroopCols,
         <<TroopRow(1, Cell(1), lo[1], la[1], Cell(4), Cell(1), <<"A">>),
           TroopRow(2, Cell(2), lo[2], la[2], Cell(1), Cell(1), <<"A">>)>>)

InitTemp ==
    \E lo \in {<<Cell(24), Cell(37)>>, <<Cell(37), Cell(24)>>},
       la \in {<<Cell(55), Cell(55)>>, <<Cell(-1), Cell(55)>>, <<Cell(-1), Cell(-1)>>},
       n \in 1..MaxRows :
        \E t \in [1..n -> Temps] :
            Start(Inputs(CoordTroops(lo, la), TempTable(n, t), BaseCities), TRUE)

SpecTemp == InitTemp /\ [][Next]_vars

\* ================================================================ claims
\* the blocks of main() in program order, and the block each raising line is in
Steps ==
    <<"load_troops", "load_temp", "load_cities", "to_numeric", "sort", "check_troops",
      "check_temp", "check_cities", "extents", "subplots", "route", "cities",
      "temp_curve", "temp_labels", "format", "savefig", "print", "done">>

StepOfLine(line) ==
    CASE line = 42 -> "load_troops" [] line = 43 -> "load_temp" [] line = 44 -> "load_cities"
      [] line = 68 -> "check_troops" [] line = 70 -> "check_temp" [] line = 72 -> "check_cities"
      [] line \in {98, 113} -> "route"
      [] line \in {139, 141} -> "temp_labels"
      [] line = 158 -> "savefig"

Index(step) == CHOOSE i \in 1..Len(Steps) : Steps[i] = step

\* the block the run is in, or failed in
Current == IF pc = "failed" THEN StepOfLine(err.line) ELSE pc

Reached(step) == Index(Current) >= Index(step)
Completed(step) == Index(Current) > Index(step)

AllExist == files.troops.exists /\ files.temp.exists /\ files.cities.exists

RequiredPresent ==
    /\ needed_troops \subseteq files.troops.cols
    /\ needed_temp \subseteq files.temp.cols
    /\ needed_cities \subseteq files.cities.cols

RowById(df, id) == CHOOSE r \in Range(df.rows) : r.row = id

Half == Float(1, 2)
Twelve == Float(12, 1)

\* ---------------------------------------------------------------- C1
ValidSurvivors ==
    \A i \in 1..Len(files.troops.rows) :
        files.troops.rows[i].survivors.parses /\ files.troops.rows[i].survivors.val >= 0

SegmentSurvivors(seg) ==
    PairSurvivors(RowById(troops, seg.p1), RowById(troops, seg.p2))

LinewidthsInRange ==
    /\ \A i \in 1..Len(ax.segments) :
        FLe(Half, ax.segments[i].linewidth) /\ FLe(ax.segments[i].linewidth, Twelve)
    /\ \A i, j \in 1..Len(ax.segments) :
        FLe(SegmentSurvivors(ax.segments[i]), SegmentSurvivors(ax.segments[j]))
            => FLe(ax.segments[i].linewidth, ax.segments[j].linewidth)

\* C1: for every troops table with all survivor counts >= 0, a linewidth is
\* computed for every consecutive route pair (the computation does not raise),
\* it lies in [0.5, 12.0], and it is monotonic non-decreasing in the pair's
\* average survivor count.
C1_LinewidthInRange ==
    ValidSurvivors =>
        /\ ~(pc = "failed" /\ Current = "route")
        /\ LinewidthsInRange

\* What does hold: in a table whose largest survivor count is positive the
\* linewidths are in range and monotonic.
C1_InRangeWhenMaxPositive ==
    (ValidSurvivors /\ FLt(Zero, max_surv)) =>
        /\ ~(pc = "failed" /\ Current = "route")
        /\ LinewidthsInRange
        /\ Completed("route") =>
            \A o \in RouteOrders(troops) : Len(ax.segments) = Len(RoutePairs(o))

\* ---------------------------------------------------------------- C2
FirstMissingLine ==
    IF ~(needed_troops \subseteq files.troops.cols) THEN 68
    ELSE IF ~(needed_temp \subseteq files.temp.cols) THEN 70
    ELSE 72

\* C2: when all three files load and a required column is absent from its
\* table, the run ends in the ValueError of the column check (lines 67-72) of
\* the first table that lacks one: no earlier block fails, no block after the
\* check runs, no figure or plot element exists, nothing is saved, and no
\* column is added to any table.
C2_MissingColumnFailsBeforeDrawing ==
    (AllExist /\ ~RequiredPresent) =>
        /\ ~fig /\ ax = EmptyAxes /\ saved = 0 /\ ~printed
        /\ Index(Current) <= Index(StepOfLine(FirstMissingLine))
        /\ pc = "failed" => err = [kind |-> "ValueError", line |-> FirstMissingLine]
        /\ pc # "failed" => ENABLED Next
        /\ troops.cols \subseteq files.troops.cols
        /\ temp.cols \subseteq files.temp.cols
        /\ cities.cols \subseteq files.cities.cols

C2_Witness ==
    /\ pc = "failed"
    /\ err = [kind |-> "ValueError", line |-> 68]
    /\ files.troops.cols = TroopCols \ {"survivors"}
    /\ troops.rows # <<>>
    /\ ~fig

\* ---------------------------------------------------------------- C3
\* C3: when all temperatures are equal (temp_min = temp_max) neither the curve
\* computation nor the label placement divides by zero.
C3_EqualTempsNoDivisionByZero ==
    (~IsNaN(temp_min) /\ temp_min = temp_max) => err.kind # "ZeroDivisionError"

\* ---------------------------------------------------------------- C4
\* the inverse of the mapping, as the claim gives it
Recover(y) ==
    FAdd(temp_min, FMul(NpDiv(FSub(y, y_base), Float(14, 10)), FSub(temp_max, temp_min)))

\* C4: with temp_min < temp_max, recovering the temperature from each mapped
\* coordinate gives back the row's temperature, the mapping is affine (every
\* coordinate difference is the temperature difference times the one slope
\* 1.4 / (temp_max - temp_min)), and it is strictly increasing, so distinct
\* temperatures get distinct coordinates.
C4_MappingAffineInvertible ==
    FLt(temp_min, temp_max) =>
        /\ Len(y_temp) = Len(temp.rows)
        /\ \A i \in 1..Len(y_temp) : Recover(y_temp[i]) = temp.rows[i].temp
        /\ \A i, j \in 1..Len(y_temp) :
            FLt(temp.rows[i].temp, temp.rows[j].temp) <=> FLt(y_temp[i], y_temp[j])
        /\ LET slope == NpDiv(Float(14, 10), FSub(temp_max, temp_min))
           IN  \A i, j \in 1..Len(y_temp) :
                   FSub(y_temp[i], y_temp[j])
                       = FMul(slope, FSub(temp.rows[i].temp, temp.rows[j].temp))

C4_Witness ==
    /\ pc = "done"
    /\ FLt(temp_min, temp_max)
    /\ \E i \in 1..Len(y_temp) :
        FLt(temp_min, temp.rows[i].temp) /\ FLt(temp.rows[i].temp, temp_max)

\* ---------------------------------------------------------------- C5
\* C5: with temp_min < temp_max, y_base is the minimum troop latitude less 2.3,
\* a row holding the maximum temperature is mapped to y_base + 1.4 and one
\* holding the minimum to y_base, and each label's coordinate before its offset
\* (yt of line 139) equals the curve's coordinate of the same row (line 131).
C5_ExtremesExactLabelsAgree ==
    FLt(temp_min, temp_max) =>
        /\ y_base = FSub(ColMin(troops, "lat"), Float(23, 10))
        /\ \A i \in 1..Len(y_temp) :
            /\ temp.rows[i].temp = temp_max => y_temp[i] = FAdd(y_base, Float(14, 10))
            /\ temp.rows[i].temp = temp_min => y_temp[i] = y_base
        /\ \A i \in 1..Len(ax.temp_texts) :
            /\ ax.temp_texts[i].row = temp.rows[i].row
            /\ ax.temp_texts[i].yt = y_temp[i]
            /\ ax.temp_texts[i].y = FSub(y_temp[i], Float(1, 10))
        /\ Completed("temp_labels") => Len(ax.temp_texts) = Len(temp.rows)

C5_Witness ==
    /\ pc = "done"
    /\ FLt(temp_min, temp_max)
    /\ Len(ax.temp_texts) >= 2
    /\ \E i, j \in 1..Len(ax.temp_texts) :
        /\ ax.temp_texts[i].yt = FAdd(y_base, Float(14, 10))
        /\ ax.temp_texts[j].yt = y_base

\* ---------------------------------------------------------------- C6
UnparseableNumbers ==
    \/ \E i \in 1..Len(files.troops.rows) :
        \/ ~files.troops.rows[i].long.parses
        \/ ~files.troops.rows[i].lat.parses
        \/ ~files.troops.rows[i].survivors.parses
    \/ \E i \in 1..Len(files.temp.rows) :
        ~files.temp.rows[i].long.parses \/ ~files.temp.rows[i].temp.parses
    \/ \E i \in 1..Len(files.cities.rows) :
        ~files.cities.rows[i].long.parses \/ ~files.cities.rows[i].lat.parses

\* C6: a run whose files hold unparseable values in long, lat, survivors or
\* temp (and have every required column) is not aborted by the conversion of a
\* value: the values become missing and the run goes on to the image write.
C6_MissingValuesTolerated ==
    (AllExist /\ RequiredPresent /\ UnparseableNumbers) =>
        ~(pc = "failed" /\ err.kind = "ValueError")

\* ---------------------------------------------------------------- C7
SameGroup(a, b) == a.group = b.group /\ a.direction = b.direction

CmpX(a, b) == NumCmp(a.X, b.X)

\* the records a segment may join: those of one (group, direction), or all
Members(a) ==
    IF Grouped(troops)
    THEN {r \in Range(troops.rows) : SameGroup(r, a) /\ ~IsNaN(r.group)}
    ELSE Range(troops.rows)

\* b follows a in the order by X (file order without X) with no record between
Adjacent(a, b) ==
    /\ a.row # b.row
    /\ b \in Members(a)
    /\ IF "X" \in troops.cols
       THEN /\ CmpX(a, b) <= 0
            /\ ~\E c \in Members(a) : CmpX(a, c) < 0 /\ CmpX(c, b) < 0
       ELSE /\ a.row < b.row
            /\ ~\E c \in Members(a) : a.row < c.row /\ c.row < b.row

SegmentsOf(a) ==
    {i \in 1..Len(ax.segments) : RowById(troops, ax.segments[i].p1) \in Members(a)}

\* C7: once the route is drawn, every segment joins two records of the same
\* (group, direction) that are adjacent in the group's order by X (file order
\* without X), with their coordinates as end points; no record starts or ends
\* two segments; a group of n records has n - 1 segments.  Without the two
\* grouping columns the same holds of the whole table taken as one sequence.
C7_SegmentsJoinAdjacentRecords ==
    Completed("route") =>
        /\ \A i \in 1..Len(ax.segments) :
            LET a == RowById(troops, ax.segments[i].p1)
                b == RowById(troops, ax.segments[i].p2)
            IN  /\ a \in Members(a)
                /\ Adjacent(a, b)
                /\ ax.segments[i].x = <<a.long, b.long>>
                /\ ax.segments[i].y = <<a.lat, b.lat>>
        /\ \A i, j \in 1..Len(ax.segments) :
            i # j => /\ ax.segments[i].p1 # ax.segments[j].p1
                     /\ ax.segments[i].p2 # ax.segments[j].p2
        /\ \A a \in Range(troops.rows) :
            a \in Members(a) => Cardinality(SegmentsOf(a)) = Cardinality(Members(a)) - 1
        /\ ~Grouped(troops) => Len(ax.segments) = Len(troops.rows) - 1

C7_Witness ==
    /\ pc = "done"
    /\ Grouped(troops) /\ "X" \in troops.cols
    /\ \E a, b \in Range(troops.rows) : ~IsNaN(a.group) /\ ~IsNaN(b.group) /\ ~SameGroup(a, b)
    /\ \E i \in 1..Len(ax.segments) : ax.segments[i].p1 > ax.segments[i].p2

\* ---------------------------------------------------------------- C8
SegmentDirection(seg) == RowById(troops, seg.p1).direction

UngroupedSolid ==
    ~Grouped(troops) => \A i \in 1..Len(ax.segments) : ax.segments[i].linestyle = "-"

\* C8 as stated: with the grouping columns, a segment is solid if its direction
\* value starts with "A" and dashed otherwise; without them all are solid.
C8_SolidIffStartsWithA ==
    /\ Grouped(troops) =>
        \A i \in 1..Len(ax.segments) :
            ax.segments[i].linestyle =
                IF StartsWith(SegmentDirection(ax.segments[i]), "A") THEN "-" ELSE "--"
    /\ UngroupedSolid

\* C8 amended: with the grouping columns, a segment is solid if its direction
\* value starts with "A" or "a" (the value is upper-cased before the test) and
\* dashed otherwise, so all segments of one (group, direction) share one style;
\* without both grouping columns all are solid.
C8_SolidIffStartsWithAAnyCase ==
    /\ Grouped(troops) =>
        /\ \A i \in 1..Len(ax.segments) :
            LET d == SegmentDirection(ax.segments[i])
            IN  ax.segments[i].linestyle =
                    IF Len(d) > 0 /\ d[1] \in {"A", "a"} THEN "-" ELSE "--"
        /\ \A i, j \in 1..Len(ax.segments) :
            SameGroup(RowById(troops, ax.segments[i].p1), RowById(troops, ax.segments[j].p1))
                => ax.segments[i].linestyle = ax.segments[j].linestyle
    /\ UngroupedSolid

C8_Witness ==
    /\ pc = "done"
    /\ Grouped(troops)
    /\ \E i \in 1..Len(ax.segments) :
        SegmentDirection(ax.segments[i]) = <<"a">> /\ ax.segments[i].linestyle = "-"
    /\ \E r \in Range(troops.rows) : r.direction = <<"R">>

\* ---------------------------------------------------------------- C9
Loaded == troops # NoTable /\ temp # NoTable /\ cities # NoTable

Validated ==
    /\ HasColumns(troops, needed_troops)
    /\ HasColumns(temp, needed_temp)
    /\ HasColumns(cities, needed_cities)

AllDrawn ==
    /\ \A o \in RouteOrders(troops) : Len(ax.segments) = Len(RoutePairs(o))
    /\ Len(ax.scatter) = Len(cities.rows)
    /\ Len(ax.city_texts) = Len(cities.rows)
    /\ Len(ax.temp_line) = Len(temp.rows)
    /\ Len(ax.temp_texts) = Len(temp.rows)
    /\ ax.legend # <<>>

\* C9: the blocks run in the one order read, transform, render, write: every
\* table is loaded before any column check, every check has passed before the
\* figure exists, nothing is drawn without the figure, everything is drawn
\* before the image is written, the image is written at most once and only the
\* report follows it; a failed run has written and reported nothing, and no
\* block runs after the failure.
C9_ReadTransformRenderWrite ==
    /\ pc \in Range(Steps) \cup {"failed"}
    /\ (pc = "failed") <=> (err # NoErr)
    /\ Reached("check_troops") => Loaded
    /\ fig => Loaded /\ Validated
    /\ ax # EmptyAxes => fig
    /\ saved > 0 => fig /\ AllDrawn
    /\ saved <= 1
    /\ saved = 1 => pc \in {"print", "done"}
    /\ printed => saved = 1 /\ pc = "done"
    /\ pc = "failed" => saved = 0 /\ ~printed /\ ~ENABLED Next

C9_Witness ==
    /\ pc = "done" /\ saved = 1 /\ printed
    /\ Len(ax.segments) > 0 /\ Len(ax.temp_texts) > 0 /\ Len(ax.scatter) > 0

\* --------------------------------------------------------------- C10
\* C10: with temp_min < temp_max every mapped coordinate lies in the band
\* [min_lat - 2.3, min_lat - 0.9], which is strictly below every route
\* latitude; once the limits are set, the vertical limits
\* [y_base - 0.5, max_lat + 0.8] contain the band and every route latitude and
\* the horizontal limits [min long - 0.5, max long + 0.5] every route longitude.
C10_BandBelowRoute ==
    FLt(temp_min, temp_max) =>
        LET lo == FSub(min_lat, Float(23, 10))
            hi == FSub(min_lat, Float(9, 10))
        IN  /\ y_base = lo /\ FAdd(y_base, y_span) = hi
            /\ \A i \in 1..Len(y_temp) : FLe(lo, y_temp[i]) /\ FLe(y_temp[i], hi)
            /\ \A i \in 1..Len(ax.temp_line) : ax.temp_line[i][2] = y_temp[i]
            /\ \A i \in 1..Len(troops.rows) :
                FLt(hi, troops.rows[i].lat) /\ FLe(troops.rows[i].lat, max_lat)
            /\ Completed("format") =>
                /\ ax.ylim = <<FSub(y_base, Float(1, 2)), FAdd(max_lat, Float(8, 10))>>
                /\ FLe(ax.ylim[1], lo) /\ FLe(hi, ax.ylim[2])
                /\ \A i \in 1..Len(troops.rows) :
                    /\ FLe(ax.ylim[1], troops.rows[i].lat)
                    /\ FLe(troops.rows[i].lat, ax.ylim[2])
                    /\ FLe(ax.xlim[1], troops.rows[i].long)
                    /\ FLe(troops.rows[i].long, ax.xlim[2])
                /\ \E i, j \in 1..Len(troops.rows) :
                    /\ ax.xlim[1] = FSub(troops.rows[i].long, Float(1, 2))
                    /\ ax.xlim[2] = FAdd(troops.rows[j].long, Float(1, 2))

C10_Witness ==
    /\ pc = "done"
    /\ FLt(temp_min, temp_max)
    /\ FLt(min_lat, max_lat)
    /\ FLt(ax.xlim[1], FSub(ax.xlim[2], Float(1, 1)))
    /\ \E i \in 1..Len(y_temp) : FLt(y_base, y_temp[i]) /\ FLt(y_temp[i], FAdd(y_base, y_span))

====
